---- MODULE Spec2Model ----
\* HTTP/1-or-HTTP/2 auto connection (src/server/conn/auto.rs): the preface
\* detector ReadVersion, the Connection / UpgradeableConnection drivers and
\* their graceful_shutdown, over a transport that delivers a fixed wire stream
\* in arbitrary chunks.
EXTENDS Integers, Sequences, FiniteSets, TLC

\* ---------------------------------------------------------------- constants

\* const H2_PREFACE: &[u8] = b"PRI * HTTP/2.0\r\n\r\nSM\r\n\r\n";
H2_PREFACE ==
    <<80, 82, 73, 32, 42, 32, 72, 84, 84, 80, 47, 50, 46, 48,
      13, 10, 13, 10, 83, 77, 13, 10, 13, 10>>

\* buf: [MaybeUninit<u8>; 24]
BufCap == 24

\* A slot of buf that no read has written yet (MaybeUninit::uninit()).
Uninit == -1

\* ------------------------------------------------------------------- bounds

\* Longest run of non-preface bytes the peer appends to a preface prefix.
MaxTail == 1

\* Number of graceful_shutdown calls made on one connection.
MaxShutdownCalls == 2

\* Number of setter calls made on the builder views.
MaxSets == 3

\* The values a setter is called with.
SetterValues == {"val"}

\* Bytes the peer sends that are not taken from the preface ('G').
OtherBytes == {71}

Tails == UNION {[1..n -> OtherBytes] : n \in 0..MaxTail}

\* The byte streams a peer may send: a prefix of the preface (any length,
\* the whole preface included) followed by a tail of other bytes.
Wires ==
    {SubSeq(H2_PREFACE, 1, k) \o t : k \in 0..Len(H2_PREFACE), t \in Tails}

Min(a, b) == IF a < b THEN a ELSE b

\* -------------------------------------------------------------------- state

VARIABLES
    features,       \* cfg(feature = "http1"), cfg(feature = "http2")
    builder,        \* Builder { http1, http2 }
    kind,           \* which future serves the connection
    wire,           \* the bytes the peer sends on the transport, in order
    pos,            \* how many bytes of wire the transport has delivered
    state,          \* the active tag of ConnState / UpgradeableConnState
    read_version,   \* ReadVersion { io, buf, filled, version }
    service,        \* ConnState::ReadVersion { service: Option<S> }
    conn,           \* the protocol engine held by ConnState::H1 / H2
    observed,       \* the bytes the engine has read from its Rewind<I>
    polled,         \* what the most recent Connection::poll returned
    detected,       \* the Output of ReadVersion::poll once it was Ready(Ok)
    resumed,        \* history: the detector was resumed with bytes buffered
    calls,          \* history: graceful_shutdown calls made
    forwarded,      \* history: graceful_shutdown calls the engine received
    reads,          \* history: what the detector's reads of the transport met
    view,           \* the builder view the configuration chain holds
    sets            \* history: setter calls made on the builder views

vars ==
    <<features, builder, kind, wire, pos, state, read_version, service, conn,
      observed, polled, detected, resumed, calls, forwarded, reads,
      view, sets>>

NoConn == [gen |-> "none"]
NoOutput == [version |-> "none", io |-> [pre |-> <<>>]]

\* --------------------------------------------------------------- transport

\* Read::poll_read on the raw transport with `cap` bytes of room: not ready,
\* an error, or the next 1..cap bytes of the wire; zero bytes only at the end
\* of the stream.
PollRead(w, p, cap) ==
    {[kind |-> "Pending", n |-> 0], [kind |-> "Err", n |-> 0]}
    \cup {[kind |-> "Ok", n |-> n] : n \in 1..Min(cap, Len(w) - p)}
    \cup (IF p = Len(w) THEN {[kind |-> "Ok", n |-> 0]} ELSE {})

\* ------------------------------------------------------------------ Rewind

\* Rewind::new_buffered(io, buf): the transport with buf to replay first.
RewindNew(buf) == [pre |-> buf]

\* Reads on a Rewind that return j bytes in all: the buffered bytes are
\* handed out first and only then is the transport read; buffered bytes not
\* yet handed out stay buffered.
RewindRead(rw, p, j) ==
    LET k == Min(j, Len(rw.pre))
    IN  [bytes |-> SubSeq(rw.pre, 1, k) \o SubSeq(wire, p + 1, p + (j - k)),
         rw |-> [pre |-> SubSeq(rw.pre, k + 1, Len(rw.pre))],
         pos |-> p + (j - k)]

\* ------------------------------------------------------------ ReadVersion

\* fn read_version(io) -> ReadVersion<I>
read_version_new ==
    [io |-> "Some",
     buf |-> [i \in 1..BufCap |-> Uninit],
     filled |-> 0,
     version |-> "H2"]

\* buf.filled(): the initialised part of the scratch buffer.
Filled(rv) == [i \in 1..rv.filled |-> rv.buf[i]]

\* Slice a[from..to] in Rust's half-open, zero-based indexing.
Slice(a, from, to) == [i \in 1..(to - from) |-> a[from + i]]

\* As NotPreface, but with the new bytes compared against the start of the
\* preface instead of the positions they were read into.
NotPrefaceFromStart(buf, len, got) ==
    \/ got = len
    \/ Slice(buf, len, got) # Slice(H2_PREFACE, 0, got - len)

\* As NotPreface, but a read that added nothing is not taken as the end of
\* the stream.
NotPrefaceNoEof(buf, len, got) ==
    Slice(buf, len, got) # Slice(H2_PREFACE, len, got)

\* The test that switches to H1: the read added nothing, or the bytes it
\* added differ from the same positions of the preface.
\*   buf.filled().len() == len
\*       || buf.filled()[len..] != H2_PREFACE[len..buf.filled().len()]
NotPreface(buf, len, got) ==
    \/ got = len
    \/ Slice(buf, len, got) # Slice(H2_PREFACE, len, got)

\* The history of the detector's reads after one more read, issued at d,
\* returned r: eof and err record a read that returned zero bytes or an error,
\* late a read issued although the version was already H1 or the buffer
\* already held H2_PREFACE.len() bytes. got counts the bytes the reads of
\* the poll under way have returned, again records, of a detector that is
\* still running, a read issued in a poll in which an earlier read had
\* returned bytes, pend whether the latest read returned Pending.
ReadsMet(d, r) ==
    [eof |-> d.reads.eof \/ (r.kind = "Ok" /\ r.n = 0),
     err |-> d.reads.err \/ r.kind = "Err",
     late |-> \/ d.reads.late
              \/ d.rv.version = "H1"
              \/ d.rv.filled >= Len(H2_PREFACE),
     got |-> IF r.kind = "Ok" THEN d.reads.got + r.n ELSE d.reads.got,
     again |-> d.reads.again \/ d.reads.got > 0,
     pend |-> r.kind = "Pending"]

\* As ReadOk, but the bytes read are put at the start of buf, as with a
\* ReadBuf whose filled part was not advanced to `filled`.
ReadOkFromStart(d, r) ==
    LET rv == d.rv
        got == r.n
        buf2 == [i \in 1..BufCap |->
                    IF i <= got THEN wire[d.pos + i] ELSE rv.buf[i]]
        rv2 == [rv EXCEPT !.buf = buf2, !.filled = got]
        h1 == NotPreface(buf2, 0, got)
    IN  [rv |-> IF h1 THEN [rv2 EXCEPT !.version = "H1"] ELSE rv2,
         pos |-> d.pos + r.n,
         st |-> IF h1 THEN "break" ELSE "loop",
         reads |-> ReadsMet(d, r)]

\* As ReadOk, but poll returns Pending after a read that brought matching
\* bytes and left the buffer short of the preface.
ReadOkSuspend(d, r) ==
    LET rv == d.rv
        len == rv.filled
        got == len + r.n
        buf2 == [i \in 1..BufCap |->
                    IF i > len /\ i <= got
                    THEN wire[d.pos + (i - len)] ELSE rv.buf[i]]
        rv2 == [rv EXCEPT !.buf = buf2, !.filled = got]
        h1 == NotPreface(buf2, len, got)
    IN  [rv |-> IF h1 THEN [rv2 EXCEPT !.version = "H1"] ELSE rv2,
         pos |-> d.pos + r.n,
         st |-> IF h1 THEN "break"
                ELSE IF got < Len(H2_PREFACE) THEN "Pending" ELSE "loop",
         reads |-> ReadsMet(d, r)]

\* As ReadOk, but the version is left as it is when the loop is left on a
\* read that is not the preface.
ReadOkKeepsVersion(d, r) ==
    LET rv == d.rv
        len == rv.filled
        got == len + r.n
        buf2 == [i \in 1..BufCap |->
                    IF i > len /\ i <= got
                    THEN wire[d.pos + (i - len)] ELSE rv.buf[i]]
        rv2 == [rv EXCEPT !.buf = buf2, !.filled = got]
        h1 == NotPreface(buf2, len, got)
    IN  [rv |-> rv2,
         pos |-> d.pos + r.n,
         st |-> IF h1 THEN "break" ELSE "loop",
         reads |-> ReadsMet(d, r)]

\* As ReadOk, but `filled` is not moved on to the end of the bytes read.
ReadOkCursorKept(d, r) ==
    LET rv == d.rv
        len == rv.filled
        got == len + r.n
        buf2 == [i \in 1..BufCap |->
                    IF i > len /\ i <= got
                    THEN wire[d.pos + (i - len)] ELSE rv.buf[i]]
        rv2 == [rv EXCEPT !.buf = buf2]
        h1 == NotPreface(buf2, len, got)
    IN  [rv |-> IF h1 THEN [rv2 EXCEPT !.version = "H1"] ELSE rv2,
         pos |-> d.pos + r.n,
         st |-> IF h1 THEN "break" ELSE "loop",
         reads |-> ReadsMet(d, r)]

\* As ReadOk, but the loop is not left when the version is set to H1.
ReadOkNoBreak(d, r) ==
    LET rv == d.rv
        len == rv.filled
        got == len + r.n
        buf2 == [i \in 1..BufCap |->
                    IF i > len /\ i <= got
                    THEN wire[d.pos + (i - len)] ELSE rv.buf[i]]
        rv2 == [rv EXCEPT !.buf = buf2, !.filled = got]
        h1 == NotPreface(buf2, len, got)
    IN  [rv |-> IF h1 THEN [rv2 EXCEPT !.version = "H1"] ELSE rv2,
         pos |-> d.pos + r.n,
         st |-> "loop",
         reads |-> ReadsMet(d, r)]

\* A read that returned Ok with r.n more bytes, in the body of the loop:
\*   *this.filled = buf.filled().len();
\*   if <NotPreface> { *this.version = Version::H1; break; }
ReadOk(d, r) ==
    LET rv == d.rv
        len == rv.filled
        got == len + r.n
        buf2 == [i \in 1..BufCap |->
                    IF i > len /\ i <= got
                    THEN wire[d.pos + (i - len)] ELSE rv.buf[i]]
        rv2 == [rv EXCEPT !.buf = buf2, !.filled = got]
        h1 == NotPreface(buf2, len, got)
    IN  [rv |-> IF h1 THEN [rv2 EXCEPT !.version = "H1"] ELSE rv2,
         pos |-> d.pos + r.n,
         st |-> IF h1 THEN "break" ELSE "loop",
         reads |-> ReadsMet(d, r)]

\* As ReadStep, but a read error is swallowed and the read is made again.
ReadStepRetry(d, r) ==
    IF r.kind = "Pending"
    THEN [d EXCEPT !.st = "Pending", !.reads = ReadsMet(d, r)]
    ELSE IF r.kind = "Err"
    THEN [d EXCEPT !.st = "loop", !.reads = ReadsMet(d, r)]
    ELSE ReadOk(d, r)

\* As ReadStep, but a read of zero bytes is reported as a failure.
ReadStepEofIsError(d, r) ==
    IF r.kind = "Pending"
    THEN [d EXCEPT !.st = "Pending", !.reads = ReadsMet(d, r)]
    ELSE IF r.kind = "Err" \/ r.n = 0
    THEN [d EXCEPT !.st = "Err", !.reads = ReadsMet(d, r)]
    ELSE ReadOk(d, r)

\* The history kept when a poll of the detector ends at d: got is counted
\* within one poll, again is kept for as long as the detector runs.
ReadsKept(d) ==
    IF d.st = "Ready" THEN [d.reads EXCEPT !.got = 0, !.again = FALSE]
    ELSE [d.reads EXCEPT !.got = 0]

\* One pass of the body of `while buf.filled().len() < H2_PREFACE.len()`
\* for the read result r. d.st tells where the poll stands afterwards: "loop"
\* (the while condition is evaluated again), "Pending" and "Err" (ready! and ?
\* returned from poll), "break" (the loop was left).
ReadStep(d, r) ==
    IF r.kind = "Pending"
    THEN [d EXCEPT !.st = "Pending", !.reads = ReadsMet(d, r)]
    ELSE IF r.kind = "Err"
    THEN [d EXCEPT !.st = "Err", !.reads = ReadsMet(d, r)]
    ELSE ReadOk(d, r)

\* As LoopGuard, but stopping after the 14 bytes of "PRI * HTTP/2.0".
LoopGuardShort(d) == d.rv.filled < 14

\* The while condition: a pass is made only while fewer than
\* H2_PREFACE.len() bytes are filled.
LoopGuard(d) == d.rv.filled < Len(H2_PREFACE)

\* Every place the loop can be at after any number of passes, over every
\* sequence of read results of the transport: `seen` are the places found so
\* far, `frontier` those among them whose next pass is still to be made.
RECURSIVE ReadLoop(_, _)
ReadLoop(seen, frontier) ==
    LET more == UNION {{ReadStep(d, r) :
                            r \in PollRead(wire, d.pos, BufCap - d.rv.filled)} :
                       d \in {x \in frontier : x.st = "loop" /\ LoopGuard(x)}}
        new == more \ seen
    IN  IF new = {} THEN seen ELSE ReadLoop(seen \cup new, new)

\* As ReadVersionReady, but the Rewind is primed without the last byte read.
ReadVersionReadyDropLast(d) ==
    [rv |-> [d.rv EXCEPT !.io = "None"],
     pos |-> d.pos,
     st |-> "Ready",
     reads |-> d.reads,
     out |-> [version |-> d.rv.version,
              io |-> RewindNew(SubSeq(Filled(d.rv), 1, d.rv.filled - 1))]]

\* As ReadVersionReady, but the transport is handed on with nothing to replay
\* (Rewind::new(io)).
ReadVersionReadyUnbuffered(d) ==
    [rv |-> [d.rv EXCEPT !.io = "None"],
     pos |-> d.pos,
     st |-> "Ready",
     reads |-> d.reads,
     out |-> [version |-> d.rv.version, io |-> RewindNew(<<>>)]]

\* As ReadVersionReady, but the whole of buf is copied, not its filled part.
ReadVersionReadyWholeBuf(d) ==
    [rv |-> [d.rv EXCEPT !.io = "None"],
     pos |-> d.pos,
     st |-> "Ready",
     reads |-> d.reads,
     out |-> [version |-> d.rv.version, io |-> RewindNew(d.rv.buf)]]

\* As ReadVersionReady, but the transport is left in its slot
\* (io.as_mut() in place of io.take()).
ReadVersionReadyKeepsIo(d) ==
    [rv |-> d.rv,
     pos |-> d.pos,
     st |-> "Ready",
     reads |-> d.reads,
     out |-> [version |-> d.rv.version, io |-> RewindNew(Filled(d.rv))]]

\* The end of ReadVersion::poll once the loop was left:
\*   let io = this.io.take().unwrap();
\*   let buf = buf.filled().to_vec();
\*   Poll::Ready(Ok((*this.version, Rewind::new_buffered(io, Bytes::from(buf)))))
ReadVersionReady(d) ==
    [rv |-> [d.rv EXCEPT !.io = "None"],
     pos |-> d.pos,
     st |-> "Ready",
     reads |-> d.reads,
     out |-> [version |-> d.rv.version, io |-> RewindNew(Filled(d.rv))]]

\* ReadVersion::poll: the ways one call can end. st = "Pending" and "Err" are
\* the early returns; st = "Ready" carries the Output; st = "panic" is the
\* unwrap of an io slot that is empty (this.io.as_mut().unwrap() in the loop,
\* this.io.take().unwrap() behind it).
ReadVersionPoll(rv, p) ==
    LET start == [rv |-> rv, pos |-> p, st |-> "loop", reads |-> reads]
        ends == {d \in ReadLoop({start}, {start}) : d.st # "loop" \/ ~LoopGuard(d)}
    IN  IF rv.io = "None"
        THEN {[rv |-> rv, pos |-> p, st |-> "panic", reads |-> reads,
               out |-> NoOutput]}
        ELSE {IF d.st \in {"Pending", "Err"}
              THEN [rv |-> d.rv, pos |-> d.pos, st |-> d.st, reads |-> d.reads,
                    out |-> NoOutput]
              ELSE ReadVersionReady(d) : d \in ends}

\* ----------------------------------------------------------------- engines

\* builder.http1.serve_connection(io, service), and .with_upgrades()
Http1ServeConnection(config, io, svc, upgrades) ==
    [gen |-> "http1", upgrades |-> upgrades, config |-> config, io |-> io,
     service |-> svc, shutdown |-> FALSE, done |-> FALSE, last |-> "none"]

\* builder.http2.serve_connection(io, service)
Http2ServeConnection(config, io, svc) ==
    [gen |-> "http2", upgrades |-> FALSE, config |-> config, io |-> io,
     service |-> svc, shutdown |-> FALSE, done |-> FALSE, last |-> "none"]

\* conn.graceful_shutdown() of the engine: the engine notes the request; an
\* engine whose poll has resolved does nothing.
EngineGracefulShutdown(c) ==
    IF c.done THEN c ELSE [c EXCEPT !.shutdown = TRUE]

\* conn.poll(cx) of the engine: it reads any number of the bytes its Rewind
\* and the transport behind it hold, and returns Pending, or resolves with
\* Ok(()) or with an error of its own. `last` keeps what its latest poll
\* returned ("none" for an engine that was never polled).
EnginePoll(c, p, obs) ==
    {LET r == RewindRead(c.io, p, j)
     IN  [c |-> [c EXCEPT !.io = r.rw, !.done = (res # "Pending"),
                           !.last = res],
          pos |-> r.pos, observed |-> obs \o r.bytes, res |-> res] :
        j \in 0..(Len(c.io.pre) + Len(wire) - p),
        res \in {"Pending", "Ok", "Err(engine)"}}

\* ----------------------------------------------------------------- Builder

\* The setters of Http1Builder, each named as the hyper http1::Builder
\* setting it writes.
Http1Setters ==
    {"half_close", "keep_alive", "title_case_headers", "preserve_header_case",
     "header_read_timeout", "writev", "max_buf_size", "pipeline_flush",
     "timer"}

\* The setters of Http2Builder, each named as the hyper http2::Builder
\* setting it writes.
Http2Setters ==
    {"initial_stream_window_size", "initial_connection_window_size",
     "adaptive_window", "max_frame_size", "max_concurrent_streams",
     "keep_alive_interval", "keep_alive_timeout", "max_send_buf_size",
     "enable_connect_protocol", "max_header_list_size", "timer"}

\* Builder::new(executor): both generations' builders with hyper's defaults.
BuilderNew ==
    [http1 |-> [t \in Http1Setters |-> "default"],
     http2 |-> [t \in Http2Setters |-> "default"]]

\* As Http1Set, but timer(..) also sets the HTTP/2 builder's timer.
Http1SetBothTimers(b, t, val) ==
    IF t = "timer" THEN [b EXCEPT !.http1[t] = val, !.http2[t] = val]
    ELSE [b EXCEPT !.http1[t] = val]

\* A setter of Http1Builder: self.inner.http1.<t>(val); self
Http1Set(b, t, val) == [b EXCEPT !.http1[t] = val]

\* A setter of Http2Builder: self.inner.http2.<t>(val); self
Http2Set(b, t, val) == [b EXCEPT !.http2[t] = val]

\* Option::take().unwrap() on the service slot: the handler, or a panic on
\* an empty slot.
Unwrap(slot) == IF slot = "None" THEN "panic" ELSE "service"

\* As Unsupported, but with the two messages exchanged.
UnsupportedSwapped(version) ==
    IF version = "H1" THEN "Err(HTTP/2 is not supported)"
    ELSE "Err(HTTP/1 is not supported)"

\* Version::unsupported
Unsupported(version) ==
    IF version = "H1" THEN "Err(HTTP/1 is not supported)"
    ELSE "Err(HTTP/2 is not supported)"

\* The ReadVersion variant is gone once the state was set to H1 or H2.
Dropped ==
    [io |-> "None", buf |-> [i \in 1..BufCap |-> Uninit], filled |-> 0,
     version |-> "H2"]

\* -------------------------------------------------------------- Connection

\* As ConnectionServe, but the HTTP/1 engine is built from the HTTP/2 builder's
\* settings.
ConnectionServeOtherConfig(version, io, svc) ==
    CASE version = "H1" /\ features.http1 ->
            [state |-> "H1", err |-> "none",
             conn |-> Http1ServeConnection(builder.http2, io, svc, FALSE)]
      [] version = "H2" /\ features.http2 ->
            [state |-> "H2", err |-> "none",
             conn |-> Http2ServeConnection(builder.http2, io, svc)]
      [] OTHER ->
            [state |-> "ReadVersion", err |-> Unsupported(version),
             conn |-> NoConn]

\* As ConnectionServe, but the state is not set to the engine's variant.
ConnectionServeNoSet(version, io, svc) ==
    CASE version = "H1" /\ features.http1 ->
            [state |-> "ReadVersion", err |-> "none",
             conn |-> Http1ServeConnection(builder.http1, io, svc, FALSE)]
      [] version = "H2" /\ features.http2 ->
            [state |-> "ReadVersion", err |-> "none",
             conn |-> Http2ServeConnection(builder.http2, io, svc)]
      [] OTHER ->
            [state |-> "ReadVersion", err |-> Unsupported(version),
             conn |-> NoConn]

\* Connection::poll, the `match version` of the ReadVersion arm: the state
\* the connection is set to, or the error the poll returns.
ConnectionServe(version, io, svc) ==
    CASE version = "H1" /\ features.http1 ->
            [state |-> "H1", err |-> "none",
             conn |-> Http1ServeConnection(builder.http1, io, svc, FALSE)]
      [] version = "H2" /\ features.http2 ->
            [state |-> "H2", err |-> "none",
             conn |-> Http2ServeConnection(builder.http2, io, svc)]
      [] OTHER ->
            [state |-> "ReadVersion", err |-> Unsupported(version),
             conn |-> NoConn]

\* As UpgradeableServe, but the HTTP/1 engine is built without
\* .with_upgrades().
UpgradeableServeNoUpgrades(version, io, svc) ==
    CASE version = "H1" /\ features.http1 ->
            [state |-> "H1", err |-> "none",
             conn |-> Http1ServeConnection(builder.http1, io, svc, FALSE)]
      [] version = "H2" /\ features.http2 ->
            [state |-> "H2", err |-> "none",
             conn |-> Http2ServeConnection(builder.http2, io, svc)]
      [] OTHER ->
            [state |-> "ReadVersion", err |-> Unsupported(version),
             conn |-> NoConn]

\* UpgradeableConnection::poll, the `match version` of the ReadVersion arm.
UpgradeableServe(version, io, svc) ==
    CASE version = "H1" /\ features.http1 ->
            [state |-> "H1", err |-> "none",
             conn |-> Http1ServeConnection(builder.http1, io, svc, TRUE)]
      [] version = "H2" /\ features.http2 ->
            [state |-> "H2", err |-> "none",
             conn |-> Http2ServeConnection(builder.http2, io, svc)]
      [] OTHER ->
            [state |-> "ReadVersion", err |-> Unsupported(version),
             conn |-> NoConn]

\* As graceful_shutdown, but the H2 arm does nothing.
graceful_shutdown_h1_only(st, rv, c) ==
    CASE st \in {"ReadVersion", "H2"} ->
            [read_version |-> rv, conn |-> c, forwarded |-> 0]
      [] st = "H1" /\ features.http1 ->
            [read_version |-> rv, conn |-> EngineGracefulShutdown(c),
             forwarded |-> 1]
      [] OTHER ->
            [read_version |-> rv, conn |-> [gen |-> "unreachable"],
             forwarded |-> 0]

\* As graceful_shutdown, but the ReadVersion arm drops the transport.
graceful_shutdown_drop_io(st, rv, c) ==
    CASE st = "ReadVersion" ->
            [read_version |-> [rv EXCEPT !.io = "None"], conn |-> c,
             forwarded |-> 0]
      [] st = "H1" /\ features.http1 ->
            [read_version |-> rv, conn |-> EngineGracefulShutdown(c),
             forwarded |-> 1]
      [] st = "H2" /\ features.http2 ->
            [read_version |-> rv, conn |-> EngineGracefulShutdown(c),
             forwarded |-> 1]
      [] OTHER ->
            [read_version |-> rv, conn |-> [gen |-> "unreachable"],
             forwarded |-> 0]

\* As graceful_shutdown, but a call flips the engine's shutdown request
\* instead of making it.
graceful_shutdown_toggle(st, rv, c) ==
    CASE st = "ReadVersion" ->
            [read_version |-> rv, conn |-> c, forwarded |-> 0]
      [] st = "H1" /\ features.http1 ->
            [read_version |-> rv, conn |-> [c EXCEPT !.shutdown = ~c.shutdown],
             forwarded |-> 1]
      [] st = "H2" /\ features.http2 ->
            [read_version |-> rv, conn |-> [c EXCEPT !.shutdown = ~c.shutdown],
             forwarded |-> 1]
      [] OTHER ->
            [read_version |-> rv, conn |-> [gen |-> "unreachable"],
             forwarded |-> 0]

\* Connection::graceful_shutdown for the state tag st, the detector rv and
\* the engine c: what the call leaves of the detector and the engine, and how
\* many graceful_shutdown calls it made on an engine.
graceful_shutdown(st, rv, c) ==
    CASE st = "ReadVersion" ->
            [read_version |-> rv, conn |-> c, forwarded |-> 0]
      [] st = "H1" /\ features.http1 ->
            [read_version |-> rv, conn |-> EngineGracefulShutdown(c),
             forwarded |-> 1]
      [] st = "H2" /\ features.http2 ->
            [read_version |-> rv, conn |-> EngineGracefulShutdown(c),
             forwarded |-> 1]
      [] OTHER ->
            [read_version |-> rv, conn |-> [gen |-> "unreachable"],
             forwarded |-> 0]

\* UpgradeableConnection::graceful_shutdown
upgradeable_graceful_shutdown(st, rv, c) ==
    CASE st = "ReadVersion" ->
            [read_version |-> rv, conn |-> c, forwarded |-> 0]
      [] st = "H1" /\ features.http1 ->
            [read_version |-> rv, conn |-> EngineGracefulShutdown(c),
             forwarded |-> 1]
      [] st = "H2" /\ features.http2 ->
            [read_version |-> rv, conn |-> EngineGracefulShutdown(c),
             forwarded |-> 1]
      [] OTHER ->
            [read_version |-> rv, conn |-> [gen |-> "unreachable"],
             forwarded |-> 0]

\* The call on whichever future serves the connection.
Shutdown(st, rv, c) ==
    IF kind = "Connection" THEN graceful_shutdown(st, rv, c)
    ELSE upgradeable_graceful_shutdown(st, rv, c)

\* ---------------------------------------------------------------- actions

\* Before any connection is served: a new Builder and no future.
InitConn ==
    /\ builder = BuilderNew
    /\ kind = "none"
    /\ wire = <<>>
    /\ pos = 0
    /\ state = "none"
    /\ read_version = Dropped
    /\ service = "None"
    /\ conn = NoConn
    /\ observed = <<>>
    /\ polled = "none"
    /\ detected = NoOutput
    /\ resumed = FALSE
    /\ calls = 0
    /\ forwarded = 0
    /\ reads = [eof |-> FALSE, err |-> FALSE, late |-> FALSE, got |-> 0,
                again |-> FALSE, pend |-> FALSE]
    /\ view = "Builder"
    /\ sets = 0

\* The default build: both generations compiled in.
Init ==
    /\ features = [http1 |-> TRUE, http2 |-> TRUE]
    /\ InitConn

\* The builds with a generation compiled out: http1 only, http2 only, neither.
InitFeatures ==
    /\ features \in [http1 : BOOLEAN, http2 : BOOLEAN]
                    \ {[http1 |-> TRUE, http2 |-> TRUE]}
    /\ InitConn

\* Builder::serve_connection(io, service), for a transport on which the peer
\* sends w.
ServeConnection ==
    /\ kind = "none"
    /\ \E w \in Wires : wire' = w
    /\ kind' = "Connection"
    /\ state' = "ReadVersion"
    /\ read_version' = read_version_new
    /\ service' = "Some(service)"
    /\ UNCHANGED <<features, builder, pos, conn, observed, polled, detected,
                   resumed, calls, forwarded, reads, view, sets>>

\* Builder::serve_connection_with_upgrades(io, service)
ServeConnectionWithUpgrades ==
    /\ kind = "none"
    /\ \E w \in Wires : wire' = w
    /\ kind' = "UpgradeableConnection"
    /\ state' = "ReadVersion"
    /\ read_version' = read_version_new
    /\ service' = "Some(service)"
    /\ UNCHANGED <<features, builder, pos, conn, observed, polled, detected,
                   resumed, calls, forwarded, reads, view, sets>>

\* As PollServe, but poll returns Pending once the state is set, leaving the
\* first poll of the engine to the next call.
PollServeSuspend(d) ==
    LET io == d.out.io
        svc == Unwrap(service)
        t == IF kind = "Connection" THEN ConnectionServe(d.out.version, io, svc)
             ELSE UpgradeableServe(d.out.version, io, svc)
    IN  /\ detected' = d.out
        /\ service' = "None"
        /\ IF t.err # "none"
           THEN /\ polled' = t.err
                /\ read_version' = d.rv
                /\ pos' = d.pos
                /\ UNCHANGED <<state, conn, observed>>
           ELSE /\ state' = t.state
                /\ read_version' = Dropped
                /\ conn' = t.conn
                /\ pos' = d.pos
                /\ polled' = "Pending"
                /\ UNCHANGED observed

\* As PollServe, but the driver reads a byte of the transport itself once
\* the engine's poll has returned.
PollServeReadsOn(d) ==
    LET io == d.out.io
        svc == Unwrap(service)
        t == IF kind = "Connection" THEN ConnectionServe(d.out.version, io, svc)
             ELSE UpgradeableServe(d.out.version, io, svc)
    IN  /\ detected' = d.out
        /\ service' = "None"
        /\ IF t.err # "none"
           THEN /\ polled' = t.err
                /\ read_version' = d.rv
                /\ pos' = d.pos
                /\ UNCHANGED <<state, conn, observed>>
           ELSE \E e \in EnginePoll(t.conn, d.pos, <<>>) :
                /\ state' = t.state
                /\ read_version' = Dropped
                /\ conn' = e.c
                /\ pos' = Min(e.pos + 1, Len(wire))
                /\ observed' = e.observed
                /\ polled' = e.res

\* As PollServe, but an error of the engine's first poll is returned as Ok.
PollServeOkOnError(d) ==
    LET io == d.out.io
        svc == Unwrap(service)
        t == IF kind = "Connection" THEN ConnectionServe(d.out.version, io, svc)
             ELSE UpgradeableServe(d.out.version, io, svc)
    IN  /\ detected' = d.out
        /\ service' = "None"
        /\ IF t.err # "none"
           THEN /\ polled' = t.err
                /\ read_version' = d.rv
                /\ pos' = d.pos
                /\ UNCHANGED <<state, conn, observed>>
           ELSE \E e \in EnginePoll(t.conn, d.pos, <<>>) :
                /\ state' = t.state
                /\ read_version' = Dropped
                /\ conn' = e.c
                /\ pos' = e.pos
                /\ observed' = e.observed
                /\ polled' = IF e.res = "Err(engine)" THEN "Ok" ELSE e.res

\* The ReadVersion arm of poll once read_version.poll(cx) was Ready(Ok): the
\* service is taken, the engine is built and the state set, and the loop polls
\* the engine at once; or the version is unsupported and poll returns the error.
PollServe(d) ==
    LET io == d.out.io
        svc == Unwrap(service)
        t == IF kind = "Connection"
             THEN ConnectionServe(d.out.version, io, svc)
             ELSE UpgradeableServe(d.out.version, io, svc)
    IN  /\ detected' = d.out
        /\ service' = "None"
        /\ IF t.err # "none"
           THEN /\ polled' = t.err
                /\ read_version' = d.rv
                /\ pos' = d.pos
                /\ UNCHANGED <<state, conn, observed>>
           ELSE \E e \in EnginePoll(t.conn, d.pos, <<>>) :
                /\ state' = t.state
                /\ read_version' = Dropped
                /\ conn' = e.c
                /\ pos' = e.pos
                /\ observed' = e.observed
                /\ polled' = e.res

\* Connection::poll and UpgradeableConnection::poll, one call.
Poll ==
    /\ kind # "none"
    /\ polled \in {"none", "Pending"}
    /\ IF state = "ReadVersion"
       THEN \E d \in ReadVersionPoll(read_version, pos) :
            /\ resumed' = (resumed \/ read_version.filled > 0)
            /\ reads' = ReadsKept(d)
            /\ IF d.st = "Ready"
               THEN PollServe(d)
               ELSE /\ read_version' = d.rv
                    /\ pos' = d.pos
                    /\ polled' = IF d.st = "Pending" THEN "Pending"
                                 ELSE IF d.st = "panic" THEN "panic"
                                 ELSE "Err(io)"
                    /\ UNCHANGED <<state, service, conn, observed, detected>>
       ELSE \E e \in EnginePoll(conn, pos, observed) :
            /\ conn' = e.c
            /\ pos' = e.pos
            /\ observed' = e.observed
            /\ polled' = e.res
            /\ UNCHANGED <<state, read_version, service, detected, resumed,
                           reads>>
    /\ UNCHANGED <<features, builder, kind, wire, calls, forwarded, view, sets>>

\* Connection::graceful_shutdown / UpgradeableConnection::graceful_shutdown,
\* called at any time on a connection that exists.
GracefulShutdown ==
    /\ kind # "none"
    /\ calls < MaxShutdownCalls
    /\ LET after == Shutdown(state, read_version, conn)
       IN  /\ read_version' = after.read_version
           /\ conn' = after.conn
           /\ forwarded' = forwarded + after.forwarded
    /\ calls' = calls + 1
    /\ UNCHANGED <<features, builder, kind, wire, pos, state, service,
                   observed, polled, detected, resumed, reads, view, sets>>

\* What a step of the configuration chain leaves alone: no connection is
\* being served.
connUnchanged ==
    UNCHANGED <<features, kind, wire, pos, state, read_version, service, conn,
                observed, polled, detected, resumed, calls, forwarded, reads>>

\* Builder::http1(): the HTTP/1 view of the builder.
BuilderHttp1 ==
    /\ kind = "none"
    /\ view = "Builder"
    /\ features.http1
    /\ view' = "Http1Builder"
    /\ UNCHANGED <<builder, sets>>
    /\ connUnchanged

\* Builder::http2(): the HTTP/2 view of the builder.
BuilderHttp2 ==
    /\ kind = "none"
    /\ view = "Builder"
    /\ features.http2
    /\ view' = "Http2Builder"
    /\ UNCHANGED <<builder, sets>>
    /\ connUnchanged

\* Http1Builder::http2(): Http2Builder { inner: self.inner }
Http1BuilderHttp2 ==
    /\ kind = "none"
    /\ view = "Http1Builder"
    /\ features.http2
    /\ view' = "Http2Builder"
    /\ UNCHANGED <<builder, sets>>
    /\ connUnchanged

\* Http2Builder::http1(): Http1Builder { inner: self.inner }
Http2BuilderHttp1 ==
    /\ kind = "none"
    /\ view = "Http2Builder"
    /\ features.http1
    /\ view' = "Http1Builder"
    /\ UNCHANGED <<builder, sets>>
    /\ connUnchanged

\* Any setter of Http1Builder, called with any value; it returns &mut Self.
Http1BuilderSet ==
    /\ kind = "none"
    /\ view = "Http1Builder"
    /\ sets < MaxSets
    /\ \E t \in Http1Setters, val \in SetterValues :
            builder' = Http1Set(builder, t, val)
    /\ sets' = sets + 1
    /\ UNCHANGED view
    /\ connUnchanged

\* Any setter of Http2Builder, called with any value; it returns &mut Self.
Http2BuilderSet ==
    /\ kind = "none"
    /\ view = "Http2Builder"
    /\ sets < MaxSets
    /\ \E t \in Http2Setters, val \in SetterValues :
            builder' = Http2Set(builder, t, val)
    /\ sets' = sets + 1
    /\ UNCHANGED view
    /\ connUnchanged

\* The end of a configuration statement: the view, a borrow of the Builder,
\* is dropped.
EndStatement ==
    /\ kind = "none"
    /\ view # "Builder"
    /\ view' = "Builder"
    /\ UNCHANGED <<builder, sets>>
    /\ connUnchanged

NextBuilder ==
    \/ BuilderHttp1
    \/ BuilderHttp2
    \/ Http1BuilderHttp2
    \/ Http2BuilderHttp1
    \/ Http1BuilderSet
    \/ Http2BuilderSet
    \/ EndStatement

\* The configuration of a Builder before it serves a connection.
SpecBuilder == Init /\ [][NextBuilder]_vars

Next ==
    \/ ServeConnection
    \/ ServeConnectionWithUpgrades
    \/ Poll
    \/ GracefulShutdown

Spec == Init /\ [][Next]_vars

\* The same connection in the builds with a generation compiled out.
SpecFeatures == InitFeatures /\ [][Next]_vars

\* The detector as the loop of a poll finds it at its start.
AtLoop == [rv |-> read_version, pos |-> pos, st |-> "loop", reads |-> reads]

\* The detector is running: the future exists and is in ReadVersion with the
\* transport still in the detector.
Detecting ==
    kind # "none" /\ state = "ReadVersion" /\ read_version.io = "Some"

\* One pass of the loop of ReadVersion::poll, taken by itself, for the read
\* result r: the poll returns Pending or the error, or goes round the loop,
\* or leaves it and ReadVersion::poll is Ready.
DetectorOn(r) ==
    LET d == ReadStep(AtLoop, r)
    IN  /\ reads' = ReadsKept(d)
        /\ pos' = d.pos
        /\ IF d.st = "Pending"
           THEN /\ polled' = "Pending"
                /\ read_version' = d.rv
                /\ UNCHANGED detected
           ELSE IF d.st = "Err"
           THEN /\ polled' = "Err(io)"
                /\ read_version' = d.rv
                /\ UNCHANGED detected
           ELSE IF d.st = "loop" /\ LoopGuard(d)
           THEN /\ read_version' = d.rv
                /\ UNCHANGED <<polled, detected>>
           ELSE /\ read_version' = ReadVersionReady(d).rv
                /\ detected' = ReadVersionReady(d).out
                /\ UNCHANGED polled
        /\ UNCHANGED <<features, builder, kind, wire, state, service, conn,
                       observed, resumed, calls, forwarded, view, sets>>

\* The detector makes its next read, in a poll under way or in the next poll
\* of a suspended future.
DetectorRead ==
    /\ Detecting
    /\ polled \in {"none", "Pending"}
    /\ \E r \in PollRead(wire, pos, BufCap - read_version.filled) :
            DetectorOn(r)

\* A read of the detector that the transport answers with bytes, the end of
\* the stream or an error.
DetectorAnswered ==
    /\ Detecting
    /\ polled \in {"none", "Pending"}
    /\ \E r \in PollRead(wire, pos, BufCap - read_version.filled) :
            r.kind # "Pending" /\ DetectorOn(r)

\* The rest of the poll in which ReadVersion::poll was Ready.
DetectorServe ==
    /\ kind # "none"
    /\ state = "ReadVersion"
    /\ detected # NoOutput
    /\ polled \in {"none", "Pending"}
    /\ PollServe([rv |-> read_version, pos |-> pos, out |-> detected])
    /\ UNCHANGED <<features, builder, kind, wire, resumed, calls, forwarded,
                   reads, view, sets>>

NextLive ==
    \/ ServeConnection
    \/ ServeConnectionWithUpgrades
    \/ DetectorRead
    \/ DetectorServe

\* The detection read by read, on a transport that does not answer Pending
\* for ever and in a task that is polled when woken and runs its poll on.
SpecLive ==
    /\ Init
    /\ [][NextLive]_vars
    /\ WF_vars(DetectorAnswered)
    /\ WF_vars(DetectorServe)

\* ------------------------------------------------------------ properties

\* The first n bytes of w are the first n bytes of the preface.
HasPreface(w, n) ==
    Len(w) >= n /\ SubSeq(w, 1, n) = SubSeq(H2_PREFACE, 1, n)

\* w agrees with the preface on its first k bytes and differs at position k
\* (zero-based).
DivergesAt(w, k) ==
    /\ k < Len(w)
    /\ k < Len(H2_PREFACE)
    /\ SubSeq(w, 1, k) = SubSeq(H2_PREFACE, 1, k)
    /\ w[k + 1] # H2_PREFACE[k + 1]

\* ReadVersion::poll has returned Ready(Ok((version, io))).
Detected == detected.version # "none"

\* The version a wire stream stands for: H2 exactly when it starts with the
\* whole preface.
Classify(w) == IF HasPreface(w, Len(H2_PREFACE)) THEN "H2" ELSE "H1"

\* C1 as stated: a stream whose first 14 bytes equal the first 14 bytes of
\* the preface ("PRI * HTTP/2.0") is classified H2 whenever the detector
\* completes.
C1_FourteenBytesAreH2 ==
    (Detected /\ HasPreface(wire, 14)) => detected.version = "H2"

\* C1 as amended: a stream whose first 24 bytes equal the 24-byte preface
\* is classified H2 whenever the detector completes, however the transport
\* chunked the bytes across reads and polls.
C1_PrefaceIsH2 ==
    (Detected /\ HasPreface(wire, Len(H2_PREFACE))) => detected.version = "H2"

\* The preface was delivered over several polls, the detector resumed with a
\* partial match, and the stream was classified H2.
C1_Witness ==
    /\ HasPreface(wire, Len(H2_PREFACE))
    /\ detected.version = "H2"
    /\ resumed

\* C2: a stream that diverges from the preface at position k, 0 <= k < 14,
\* is classified H1 whenever the detector completes, and the Rewind is primed
\* with bytes that begin with the k matching bytes and the diverging byte,
\* unaltered and in order.
C2_DivergingIsH1 ==
    \A k \in 0..13 :
        (Detected /\ DivergesAt(wire, k)) =>
            /\ detected.version = "H1"
            /\ Len(detected.io.pre) >= k + 1
            /\ SubSeq(detected.io.pre, 1, k + 1) = SubSeq(wire, 1, k + 1)

\* A stream that matched the preface for some bytes and then diverged was
\* classified H1, with the matching bytes and the diverging byte kept.
C2_Witness ==
    \E k \in 1..13 :
        /\ DivergesAt(wire, k)
        /\ detected.version = "H1"
        /\ Len(detected.io.pre) = k + 1

\* C3: once an engine exists, the bytes it has read from its Rewind, then
\* the bytes the Rewind still holds for replay, then the bytes the transport has
\* yet to deliver, are the wire stream: nothing is lost, duplicated or
\* reordered across the hand-off.
C3_RoundTrip ==
    state \in {"H1", "H2"} =>
        observed \o conn.io.pre \o SubSeq(wire, pos + 1, Len(wire)) = wire

\* An engine has read the whole stream, of which some bytes were consumed by
\* the detector and some arrived after the hand-off.
C3_Witness ==
    /\ state \in {"H1", "H2"}
    /\ observed = wire
    /\ detected.io.pre # <<>>
    /\ Len(wire) > Len(detected.io.pre)

\* C4: the version the detector produces depends on the wire stream alone,
\* not on how the transport split it into reads nor on where it returned
\* Pending.
C4_ChunkingIndependent ==
    Detected => detected.version = Classify(wire)

\* A stream was classified H1 by a diverging byte that arrived after the
\* detector had been resumed with a partial match.
C4_Witness ==
    /\ detected.version = "H1"
    /\ resumed
    /\ Len(detected.io.pre) >= 2
    /\ \E k \in 1..(Len(H2_PREFACE) - 1) : DivergesAt(wire, k)

\* Connection::poll has resolved: it returned Ready with Ok or an error.
Resolved == polled \notin {"none", "Pending"}

\* The state of the connection itself, without the history of calls.
connVars ==
    <<features, builder, kind, wire, pos, state, read_version, service, conn,
      observed, polled, detected>>

\* C5: the state is H1 exactly when the detector completed with H1, and H2
\* exactly when it completed with H2 (the generation being compiled in); the
\* engine held is of that generation, built from that generation's builder,
\* the handler that was held and the Rewind the detector returned.
C5_EngineMatchesVersion ==
    /\ state = "H1" <=> (detected.version = "H1" /\ features.http1)
    /\ state = "H2" <=> (detected.version = "H2" /\ features.http2)
    /\ state = "H1" =>
        /\ conn.gen = "http1"
        /\ conn.config = builder.http1
        /\ conn.upgrades = (kind = "UpgradeableConnection")
    /\ state = "H2" =>
        /\ conn.gen = "http2"
        /\ conn.config = builder.http2
        /\ ~conn.upgrades
    /\ state \in {"H1", "H2"} =>
        /\ conn.service = "service"
        /\ service = "None"
        /\ LET fed == observed \o conn.io.pre
           IN  SubSeq(fed, 1, Len(detected.io.pre)) = detected.io.pre

\* The plain Connection runs the HTTP/1 engine for a stream the detector
\* classified H1.
C5_Witness ==
    /\ kind = "Connection"
    /\ detected.version = "H1"
    /\ state = "H1"
    /\ conn.gen = "http1"
    /\ conn.config = builder.http1

\* C6: the state is always one of the tags, and what the connection holds
\* goes with the tag (no engine in ReadVersion, the HTTP/1 engine in H1, the
\* HTTP/2 engine in H2); it changes only from ReadVersion to H1 or to H2
\* (after serve_connection set it to ReadVersion), so at most once and never
\* back; and the detector's output never changes once it was produced.
C6_OneWayOnce ==
    [][/\ state' \in {"none", "ReadVersion", "H1", "H2"}
       /\ state' \in {"none", "ReadVersion"} => conn' = NoConn
       /\ state' = "H1" => conn'.gen = "http1"
       /\ state' = "H2" => conn'.gen = "http2"
       /\ state' # state =>
            \/ state = "none" /\ state' = "ReadVersion"
            \/ state = "ReadVersion" /\ state' \in {"H1", "H2"}
       /\ Detected => detected' = detected]_vars

\* A connection that went to H1 was asked to shut down and polled to its end,
\* and is still in H1.
C6_Witness ==
    /\ state = "H1"
    /\ conn.shutdown
    /\ polled = "Ok"

C8_ShutdownReachesEngine ==
    (calls > 0 /\ state \in {"H1", "H2"} /\ ~conn.done) => conn.shutdown

\* C9 as stated: a graceful_shutdown call made after poll resolved changes
\* nothing and makes no call on an engine.
C9_NothingForwarded ==
    [][(Resolved /\ calls' # calls) =>
        (UNCHANGED connVars /\ forwarded' = forwarded)]_vars

\* C9 as amended: a graceful_shutdown call made after poll resolved changes
\* nothing of the connection, the engine included (the call is still made on
\* a resolved engine, which does nothing).
C9_NoEffect ==
    [][(Resolved /\ calls' # calls) => UNCHANGED connVars]_vars

\* graceful_shutdown was called on a connection whose engine had resolved:
\* the call was made on the engine, which holds no request.
C9_Witness ==
    /\ Resolved
    /\ state \in {"H1", "H2"}
    /\ conn.done
    /\ forwarded > 0
    /\ ~conn.shutdown

Supported ==
    \/ detected.version = "H1" /\ features.http1
    \/ detected.version = "H2" /\ features.http2

\* C11: when the detector completes with a generation that is not compiled
\* in, the poll that completed it returns the unsupported-protocol error that
\* names that generation ("HTTP/1 is not supported" for H1, "HTTP/2 is not
\* supported" for H2); no engine is built and the state is never H1 or H2.
C11_UnsupportedIsError ==
    (Detected /\ ~Supported) =>
        /\ detected.version = "H1" => polled = "Err(HTTP/1 is not supported)"
        /\ detected.version = "H2" => polled = "Err(HTTP/2 is not supported)"
        /\ state = "ReadVersion"
        /\ conn = NoConn
        /\ observed = <<>>

\* C11 happens: a preface arrived in a build without http2 and the poll
\* returned the error naming HTTP/2, and likewise is possible for HTTP/1.
C11_Witness ==
    /\ ~features.http2
    /\ features.http1
    /\ detected.version = "H2"
    /\ polled = "Err(HTTP/2 is not supported)"
    /\ calls > 0

\* C12: when a read of the transport fails during detection, the poll that
\* made the read returns that error: the detector has not completed (no
\* classification), no engine is built, the state is still ReadVersion with
\* the service and the transport in place, and the read was not made again.
C12_ReadErrorEndsDetection ==
    /\ reads.err =>
            /\ polled = "Err(io)"
            /\ ~Detected
            /\ state = "ReadVersion"
            /\ conn = NoConn
            /\ service = "Some(service)"
            /\ read_version.io = "Some"
    /\ polled = "Err(io)" => reads.err

\* C12 happens: a resumed detector with bytes buffered met a read error.
C12_Witness ==
    /\ reads.err
    /\ polled = "Err(io)"
    /\ resumed
    /\ read_version.filled > 1

\* C13: whatever bytes, read sizes, Pending reads and end of stream the peer
\* produces while the detector runs, nothing panics and the poll fails only
\* when a read of the transport failed; every stream that does not start with
\* the whole preface is resolved to H1, and a read of zero bytes resolves the
\* detector.
C13_OnlyTransportErrorFails ==
    /\ polled \in {"none", "Pending", "Ok", "Err(engine)", "Err(io)"}
    /\ (state = "ReadVersion" /\ Resolved) => reads.err
    /\ conn.gen \in {"none", "http1", "http2"}
    /\ conn.gen # "none" => conn.service = "service"
    /\ (Detected /\ ~HasPreface(wire, Len(H2_PREFACE))) =>
            detected.version = "H1" /\ state = "H1"
    /\ (reads.eof /\ ~reads.err) => Detected

\* C13 happens: a stream that leaves the preface somewhere in its last ten
\* bytes was taken in over several polls and resolved to H1.
C13_Witness ==
    /\ \E k \in 14..(Len(H2_PREFACE) - 1) : DivergesAt(wire, k)
    /\ detected.version = "H1"
    /\ state = "H1"
    /\ resumed

\* The peer sent fewer than 14 bytes, all of them the start of the preface.
ShortPrefix == Len(wire) < 14 /\ HasPreface(wire, Len(wire))

\* C14: when the peer closes after fewer than 14 bytes that start the
\* preface (none at all included), the read of zero bytes completes the
\* detector, with H1 and with the bytes received in the Rewind, and the
\* connection is in state H1 with an HTTP/1 engine.
C14_ShortPrefixThenEofIsH1 ==
    ShortPrefix =>
        /\ reads.eof => Detected
        /\ Detected =>
                /\ reads.eof
                /\ detected.version = "H1"
                /\ state = "H1"
                /\ conn.gen = "http1"

\* C14 happens: the peer sent some bytes of the preface and closed.
C14_Witness ==
    /\ ShortPrefix
    /\ Len(wire) > 0
    /\ reads.eof
    /\ detected.version = "H1"
    /\ state = "H1"

\* C15: the upgradeable future behaves as the plain one. For either version
\* the two `match version` blocks give the same state and the same error,
\* the same HTTP/2 engine, and HTTP/1 engines that differ in nothing but
\* with_upgrades(); the two graceful_shutdown methods do the same in the
\* state the connection is in; and the engine held is upgrade-capable exactly
\* when it is the HTTP/1 engine of the upgradeable future.
C15_UpgradeableSameAsPlain ==
    /\ \A v \in {"H1", "H2"} :
            LET a == ConnectionServe(v, detected.io, "service")
                b == UpgradeableServe(v, detected.io, "service")
            IN  /\ a.state = b.state
                /\ a.err = b.err
                /\ a.state = "H2" => b.conn = a.conn /\ ~b.conn.upgrades
                /\ a.state = "H1" =>
                        /\ ~a.conn.upgrades
                        /\ b.conn = [a.conn EXCEPT !.upgrades = TRUE]
    /\ kind # "none" =>
            graceful_shutdown(state, read_version, conn)
                = upgradeable_graceful_shutdown(state, read_version, conn)
    /\ state = "H1" => conn.upgrades = (kind = "UpgradeableConnection")
    /\ state = "H2" => ~conn.upgrades

\* C15 happens: an upgradeable future holds an upgrade-capable HTTP/1 engine
\* that received one of two graceful_shutdown calls.
C15_Witness ==
    /\ kind = "UpgradeableConnection"
    /\ state = "H1"
    /\ conn.upgrades
    /\ conn.shutdown
    /\ calls > forwarded

\* C16: a setter of a view changes nothing but one setting of its own
\* generation and leaves the chain on the same view: an Http1Builder setter
\* leaves every HTTP/2 setting as it was and an Http2Builder setter every
\* HTTP/1 setting; moving from one view to another, in a chain or by ending
\* the statement and starting a new one, leaves the Builder as it was, so both
\* ways of writing configure the one Builder alike.
C16_SettersStayInTheirGeneration ==
    [][/\ (view = "Http1Builder" /\ sets' # sets) =>
            /\ builder'.http2 = builder.http2
            /\ view' = "Http1Builder"
            /\ \E t \in Http1Setters :
                    \A u \in Http1Setters \ {t} :
                        builder'.http1[u] = builder.http1[u]
       /\ (view = "Http2Builder" /\ sets' # sets) =>
            /\ builder'.http1 = builder.http1
            /\ view' = "Http2Builder"
            /\ \E t \in Http2Setters :
                    \A u \in Http2Setters \ {t} :
                        builder'.http2[u] = builder.http2[u]
       /\ view' # view => builder' = builder
       /\ builder' # builder => sets' # sets]_vars

\* C16 happens: as in builder.http1().keep_alive(..).http2()
\* .keep_alive_interval(..), both settings are set and nothing else is.
C16_Witness ==
    /\ view = "Http2Builder"
    /\ sets = 2
    /\ builder.http1 = [BuilderNew.http1 EXCEPT !["keep_alive"] = "val"]
    /\ builder.http2 = [BuilderNew.http2 EXCEPT !["keep_alive_interval"] = "val"]

\* C17: the poll in which the detector completes (with a generation that is
\* compiled in) also sets the state and polls the new engine before it
\* returns, and what it returns is what the engine's poll returned: there is
\* no state in which detection is complete and the engine was not yet polled.
C17_TransitionPollsEngine ==
    /\ (Detected /\ Supported) => state \in {"H1", "H2"}
    /\ state \in {"H1", "H2"} =>
            /\ conn.last \in {"Pending", "Ok", "Err(engine)"}
            /\ polled = conn.last

\* C17 happens: the engine resolved after taking in the preface and the
\* byte behind it, the detector having got its bytes within one poll.
C17_Witness ==
    /\ state = "H2"
    /\ ~resumed
    /\ calls = 0
    /\ Len(wire) > Len(H2_PREFACE)
    /\ observed = wire
    /\ conn.last = "Ok"
    /\ polled = "Ok"

\* C18: in every reachable state `filled` lies in 0..24; the slots of buf
\* below it hold bytes that were read and the slots from it on are untouched;
\* a read leaves this so, whence the comparison with the preface, which looks
\* at buf.filled() only, meets bytes that were read; and the bytes copied into
\* the Rewind are at most 24 bytes that were read.
C18_FilledWithinBuffer ==
    /\ read_version.filled \in 0..BufCap
    /\ \A i \in 1..BufCap :
            (i <= read_version.filled) = (read_version.buf[i] # Uninit)
    /\ Detecting =>
            \A r \in PollRead(wire, pos, BufCap - read_version.filled) :
                LET d == ReadStep(AtLoop, r)
                IN  /\ d.rv.filled \in read_version.filled..BufCap
                    /\ \A i \in 1..d.rv.filled : d.rv.buf[i] # Uninit
    /\ Len(detected.io.pre) <= BufCap
    /\ \A i \in 1..Len(detected.io.pre) : detected.io.pre[i] # Uninit

\* C18 happens: the detector is suspended one byte short of a full buffer.
C18_Witness ==
    /\ Detecting
    /\ polled = "Pending"
    /\ read_version.filled = BufCap - 1

\* C19: while the detector runs, from poll to poll the bytes in buf stay as
\* they are and `filled` never decreases; it grows by exactly the bytes the
\* transport delivered, which are put behind the bytes already there, so buf
\* holds the stream from its start with no byte asked for twice; the bytes
\* handed on at completion extend those held before; and a read that is
\* Pending leaves buf and `filled` as they are.
C19_BufferKeptAcrossPolls ==
    [][/\ (Detecting /\ state' = "ReadVersion") =>
            /\ read_version'.filled >= read_version.filled
            /\ \A i \in 1..read_version.filled :
                    read_version'.buf[i] = read_version.buf[i]
            /\ read_version'.filled - read_version.filled = pos' - pos
            /\ Filled(read_version') = SubSeq(wire, 1, read_version'.filled)
       /\ (Detecting /\ ~Detected /\ Detected') =>
            /\ Len(detected'.io.pre) >= read_version.filled
            /\ SubSeq(detected'.io.pre, 1, read_version.filled)
                    = Filled(read_version)
            /\ detected'.io.pre = SubSeq(wire, 1, Len(detected'.io.pre))
       /\ Detecting =>
            LET d == ReadStep(AtLoop, [kind |-> "Pending", n |-> 0])
            IN  d.rv = read_version /\ d.pos = pos /\ d.st = "Pending"]_vars

\* C19 happens: a detector resumed with bytes buffered is suspended again,
\* holding the bytes of the stream in order.
C19_Witness ==
    /\ Detecting
    /\ resumed
    /\ polled = "Pending"
    /\ read_version.filled > 2
    /\ pos = read_version.filled
    /\ Filled(read_version) = SubSeq(wire, 1, pos)

\* C20: the detector makes no read once the version is H1 or 24 bytes are
\* filled. While it runs, buf holds fewer than 24 bytes, all of them those of
\* the preface, and the version is H2; a read of zero bytes completes it with
\* H1; it completes with H1 only on a read of zero bytes or with a byte in
\* the Rewind that differs from the preface, and with H2 only with exactly
\* 24 bytes.
C20_NoReadAfterDecision ==
    /\ ~reads.late
    /\ (Detecting /\ ~Detected) =>
            /\ read_version.version = "H2"
            /\ read_version.filled < Len(H2_PREFACE)
            /\ Filled(read_version)
                    = SubSeq(H2_PREFACE, 1, read_version.filled)
    /\ reads.eof => detected.version = "H1"
    /\ detected.version = "H1" =>
            \/ reads.eof
            \/ \E k \in 0..(Len(detected.io.pre) - 1) :
                    DivergesAt(detected.io.pre, k)
    /\ detected.version = "H2" => Len(detected.io.pre) = Len(H2_PREFACE)

\* C20 happens: the detector completed on the 24 bytes of the preface and
\* the byte the peer sent behind them is still with the transport.
C20_Witness ==
    /\ detected.version = "H2"
    /\ Len(wire) > Len(H2_PREFACE)
    /\ pos = Len(H2_PREFACE)
    /\ observed = <<>>
    /\ polled = "Pending"

\* C21 as stated: every read that brings matching bytes and leaves the
\* buffer short of the preface is followed by a suspension before the next
\* read, so that no poll issues a read after one of its reads returned bytes.
C21_SuspendsPerPartialRead == ~reads.again

\* C21: the detector suspends only on a read that returned Pending. A read
\* that brings matching bytes and leaves the buffer short of the preface is
\* followed by the next pass of the loop in the same poll, never by a return.
C21_SuspendsOnlyOnPending ==
    /\ (Detecting /\ polled = "Pending") => reads.pend
    /\ Detecting =>
            \A r \in PollRead(wire, pos, BufCap - read_version.filled) :
                LET d == ReadStep(AtLoop, r)
                IN  /\ (d.st = "Pending") = (r.kind = "Pending")
                    /\ ( /\ r.kind = "Ok"
                         /\ r.n > 0
                         /\ HasPreface(wire, pos + r.n)
                         /\ read_version.filled + r.n < Len(H2_PREFACE) ) =>
                            d.st = "loop" /\ LoopGuard(d)

\* C21 happens: one poll made a read, got bytes of the preface, read again
\* and was suspended by that read returning Pending.
C21_Witness ==
    /\ Detecting
    /\ reads.again
    /\ reads.pend
    /\ polled = "Pending"
    /\ ~resumed

\* C22: the transport has one owner at every moment, the detector while the
\* state is ReadVersion and the engine once it is H1 or H2. While the
\* detector owns it every byte delivered is in buf; once the engine owns it
\* every byte delivered is in the Rewind's buffer or was read by the engine,
\* so the driver itself has read none.
C22_TransportSingleOwner ==
    kind # "none" =>
        /\ (read_version.io = "Some") # (conn.gen \in {"http1", "http2"})
        /\ state = "ReadVersion" =>
                /\ read_version.io = "Some"
                /\ conn = NoConn
                /\ observed = <<>>
                /\ pos = read_version.filled
        /\ state \in {"H1", "H2"} =>
                /\ read_version.io = "None"
                /\ conn.gen \in {"http1", "http2"}
                /\ pos = Len(conn.io.pre) + Len(observed)
                /\ Len(observed) + Len(conn.io.pre) >= Len(detected.io.pre)

\* C22 happens: the engine owns the transport, has used up the Rewind's
\* buffer and has read the byte behind the preface from the transport.
C22_Witness ==
    /\ state = "H2"
    /\ read_version.io = "None"
    /\ conn.io.pre = <<>>
    /\ pos > Len(detected.io.pre)
    /\ polled = "Pending"

\* C23: a connection has one terminal result. Poll has returned nothing
\* yet, Pending, or the one result the future resolved with: Ok or the
\* engine's error exactly when the engine held has resolved, with that as its
\* latest poll result; a transport read error or an unsupported-version error
\* only with no engine ever built; while nothing has resolved every poll made
\* has returned Pending.
C23_SingleTerminalResult ==
    /\ polled \in {"none", "Pending", "Ok", "Err(engine)", "Err(io)",
                    Unsupported("H1"), Unsupported("H2")}
    /\ state \in {"H1", "H2"} =>
            /\ polled \in {"Pending", "Ok", "Err(engine)"}
            /\ conn.done = (polled \in {"Ok", "Err(engine)"})
            /\ conn.last = polled
    /\ polled \in {"Ok", "Err(engine)"} => state \in {"H1", "H2"}
    /\ polled = "Err(io)" =>
            /\ state = "ReadVersion"
            /\ conn = NoConn
            /\ reads.err
            /\ detected = NoOutput
    /\ polled \in {Unsupported("H1"), Unsupported("H2")} =>
            /\ state = "ReadVersion"
            /\ conn = NoConn
            /\ polled = Unsupported(detected.version)
            /\ ~Supported
    /\ (state = "ReadVersion" /\ ~Resolved) =>
            /\ detected = NoOutput
            /\ ~reads.err

\* C23 happens: the engine of a connection told to shut down resolved with
\* its own error, which is the result of the connection.
C23_Witness ==
    /\ polled = "Err(engine)"
    /\ state = "H1"
    /\ conn.done
    /\ conn.last = "Err(engine)"
    /\ conn.shutdown

\* C24: when the detector completes with H2 the Rewind's buffer is the 24
\* bytes of the preface and nothing else; when it completes with H1 the
\* buffer holds between 0 and 24 bytes and is not the preface.
C24_RewindBufferAtCompletion ==
    /\ detected.version = "H2" => detected.io.pre = H2_PREFACE
    /\ detected.version = "H1" =>
            /\ Len(detected.io.pre) \in 0..Len(H2_PREFACE)
            /\ detected.io.pre # H2_PREFACE

\* C24 happens: the detector completed with H1 on 24 bytes, the last of
\* which is not the last of the preface.
C24_Witness ==
    /\ detected.version = "H1"
    /\ Len(detected.io.pre) = Len(H2_PREFACE)
    /\ DivergesAt(detected.io.pre, Len(H2_PREFACE) - 1)

\* C25: on a future that is not polled again once it resolved, no unwrap
\* meets an empty slot: the service slot and, while the state is ReadVersion,
\* the io slot are empty exactly when the detector has completed, which is
\* when each was taken. After the unsupported-version error the state is still
\* ReadVersion with both slots empty, and another poll would unwrap the
\* empty io slot.
C25_SlotsTakenOnce ==
    kind # "none" =>
        /\ polled # "panic"
        /\ conn.gen # "none" => conn.service = "service"
        /\ (service = "None") = Detected
        /\ state = "ReadVersion" => (read_version.io = "None") = Detected
        /\ state \in {"H1", "H2"} => Detected
        /\ (Detected /\ ~Supported) =>
                /\ state = "ReadVersion"
                /\ read_version.io = "None"
                /\ service = "None"
                /\ Unwrap(service) = "panic"
                /\ \A d \in ReadVersionPoll(read_version, pos) :
                        d.st = "panic"

\* C25 happens: the future resolved with "HTTP/1 is not supported" and is
\* left in ReadVersion with both slots empty.
C25_Witness ==
    /\ detected.version = "H1"
    /\ ~features.http1
    /\ polled = Unsupported("H1")
    /\ state = "ReadVersion"
    /\ read_version.io = "None"
    /\ service = "None"

\* C26: detection terminates. Every read that returns Ok moves `filled` on
\* by at least one byte or ends the loop, and `filled` never passes 24, so
\* that the detector makes at most 24 reads that return Ok; and when the
\* transport does not answer Pending for ever, a connection that is served
\* eventually leaves ReadVersion or resolves with an error.
C26_DetectionTerminates ==
    /\ [](Detecting =>
            /\ read_version.filled \in 0..Len(H2_PREFACE)
            /\ \A r \in PollRead(wire, pos, BufCap - read_version.filled) :
                    r.kind = "Ok" =>
                        LET d == ReadStep(AtLoop, r)
                        IN  \/ d.st = "break"
                            \/ /\ d.rv.filled > read_version.filled
                               /\ d.rv.filled <= Len(H2_PREFACE))
    /\ (kind # "none") ~> (state # "ReadVersion" \/ Resolved)

\* C26 happens: the detector took in the whole preface, leaving the byte
\* behind it, and the connection left ReadVersion for H2.
C26_Witness ==
    /\ detected.version = "H2"
    /\ detected.io.pre = H2_PREFACE
    /\ Len(wire) > Len(H2_PREFACE)
    /\ state = "H2"
    /\ conn.last = "Pending"
====
